---------------------------- MODULE Spec2Model ----------------------------
(***************************************************************************)
(* Focus choreography of the christmas-tree viewer: the photo feed         *)
(* (server/server.js, hooks/usePhotoSync.ts), the settle delay (App.tsx)   *)
(* and the focus state machine with its camera animation                   *)
(* (components/Experience.tsx, components/Polaroids.tsx).                  *)
(* A second specification, LayoutSpec, covers the layout generators of     *)
(* components/Polaroids.tsx and components/Foliage.tsx.                    *)
(*                                                                         *)
(* Conventions                                                             *)
(*  - a vector is a triple <<x, y, z>>; camera positions are fixed point   *)
(*    in tenths of a scene unit (the thresholds are 0.3 and 0.5 units),    *)
(*    look-at points are in whole scene units;                             *)
(*  - null is 0; photo ids and timer handles are positive;                 *)
(*  - a handler runs to completion and React commits the state it set      *)
(*    (re-render, prop application, effect cleanup and effects) before the *)
(*    next handler runs, so every action below is one handler together     *)
(*    with the commit it causes;                                           *)
(*  - timers carry no clock: a pending timer may fire at any later step.   *)
(***************************************************************************)
EXTENDS Integers, Sequences, FiniteSets, TLC

----------------------------------------------------------------------------
(* Bounds of the model *)

\* photos already in the photo directory when the server starts: 0..MaxInitialPhotos
MaxInitialPhotos == 1

\* uploads posted to the server during a session
MaxUploads == 1

\* clicks on photo cards during a session
MaxClicks == 2

----------------------------------------------------------------------------
(* Program constants *)

Null == 0

\* Experience.tsx:193
lerpSpeed == 3

\* Experience.tsx:202, (0.3 units)^2 in tenths^2
ArriveThresholdSq == 9

\* Experience.tsx:216, (0.5 units)^2 in tenths^2
ReturnThresholdSq == 25

\* Experience.tsx:129
ClickDwellMs == 5000

\* Experience.tsx:165
NewPhotoDwellMs == 20000

\* App.tsx:109, camera={{ position: [0, 4, 20] }}
InitialCameraPos == <<0, 40, 200>>

\* Experience.tsx:239, target={[0, 0, 0]}
InitialControlsTarget == <<0, 0, 0>>

\* Experience.tsx:98-101, initial values of the four refs
InitialTargetCameraPos == <<0, 40, 200>>
InitialTargetLookAt == <<0, 4, 0>>

\* the click target left at the camera's initial position
ClickCameraPosFar == <<0, 40, 200>>

\* Experience.tsx:115
ClickCameraPos == <<0, 20, 170>>

\* Experience.tsx:114
ClickLookAt == <<0, 2, 12>>

\* Experience.tsx:143-147
NewPhotoCameraPos == <<0, 40, 200>>
NewPhotoLookAt == <<0, 4, 16>>

\* Polaroids.tsx:200, focusDisplayPos (0, 8, 14) in the tree group, which
\* Experience.tsx:251 places at (0, -6, 0): the world position, in tenths,
\* where the highlighted card is displayed
FocusDisplayPos == <<0, 20, 140>>

\* camera poses the user can reach by orbiting (distance 15..30 from the target)
OrbitPoses == { <<0, 40, 200>>, <<0, 32, 160>> }

\* frame deltas, in twelfths of a second
Deltas == {3, 4}

FocusStates == {"idle", "zooming_in", "focused", "zooming_out"}

----------------------------------------------------------------------------
(* Vector arithmetic (THREE.Vector3) in fixed point *)

\* n/d rounded to the nearest integer, halves away from zero
RoundDiv(n, d) ==
    IF n >= 0 THEN (2 * n + d) \div (2 * d)
              ELSE -((2 * (-n) + d) \div (2 * d))

\* Vector3.lerp(v, alpha) for one coordinate, alpha = num/den
Lerp1(a, b, num, den) == a + RoundDiv((b - a) * num, den)

\* Vector3.lerp(target, delta * lerpSpeed), delta in twelfths of a second
LerpV(v, w, delta) ==
    << Lerp1(v[1], w[1], delta * lerpSpeed, 12),
       Lerp1(v[2], w[2], delta * lerpSpeed, 12),
       Lerp1(v[3], w[3], delta * lerpSpeed, 12) >>

\* Vector3.distanceTo squared
DistSq(v, w) ==
    (v[1] - w[1]) * (v[1] - w[1]) + (v[2] - w[2]) * (v[2] - w[2])
        + (v[3] - w[3]) * (v[3] - w[3])

----------------------------------------------------------------------------
(* Helpers on sets and sequences *)

Max(S) == CHOOSE m \in S : \A x \in S : x <= m

Range(s) == { s[i] : i \in 1..Len(s) }

RECURSIVE SortedSeq(_)
\* the elements of a finite set of numbers in ascending order
SortedSeq(S) ==
    IF S = {} THEN << >>
    ELSE LET m == CHOOSE x \in S : \A y \in S : x <= y
         IN << m >> \o SortedSeq(S \ {m})

----------------------------------------------------------------------------
(* Timers and rendering *)

\* clearTimeout left out
ClearTimeoutNoop(tms, h) == tms

\* clearTimeout(h): a handle that is not pending clears nothing
ClearTimeout(tms, h) == { t \in tms : t.h # h }

\* setTimeout returns a handle that no pending timer and no reference holds
FreshHandle(tms, ref) ==
    CHOOSE h \in 1..(Cardinality(tms) + 2) : h \notin ({ t.h : t \in tms } \cup {ref})

\* the enabled prop with the comparison inverted
ControlsEnabledPropInverted(fs) == fs # "idle"

\* Experience.tsx:238, enabled={focusState === 'idle'}
ControlsEnabledProp(fs) == fs = "idle"

\* the commit writes the enabled prop to the OrbitControls when its value
\* differs from the previous render's; otherwise the flag keeps what the
\* handler wrote (written)
CommitEnabled(written, fsOld, fsNew) ==
    IF ControlsEnabledProp(fsNew) # ControlsEnabledProp(fsOld)
    THEN ControlsEnabledProp(fsNew)
    ELSE written

\* the isFocusing prop with the comparison inverted
IsFocusingInverted(fs) == fs = "idle"

\* Experience.tsx:267, isFocusing={focusState !== 'idle'}
IsFocusing(fs) == fs # "idle"

\* Polaroids.tsx:465, isHighlighted={highlightPhotoId === data.id}
IsHighlighted(hid, id) == hid = id

\* Experience.tsx:255, the expandAmount prop of Foliage
FoliageExpandAmount(fs) == IF fs # "idle" THEN 1 ELSE 0

\* Experience.tsx:260, the expandAmount prop of Ornaments
OrnamentsExpandAmount(fs) == IF fs # "idle" THEN 1 ELSE 0

\* Experience.tsx:268, the expandAmount prop of Polaroids
PolaroidsExpandAmount(fs) == IF fs # "idle" THEN 1 ELSE 0

\* an expand target that is on only while the camera dwells
TreeStarExpandAmountFocusedOnly(fs) == IF fs = "focused" THEN 1 ELSE 0

\* Experience.tsx:272, the expandAmount prop of TreeStar
TreeStarExpandAmount(fs) == IF fs # "idle" THEN 1 ELSE 0

----------------------------------------------------------------------------
(* State *)

VARIABLES
    \* server/server.js
    photosDir,          \* numbers n of the files n.jpg in the photo directory
    uploads,            \* uploads whose file name is chosen and whose handler has not run
    uploadsStarted,     \* number of uploads posted so far
    socketQueue,        \* new-photo events emitted and not yet handled by the client
    \* hooks/usePhotoSync.ts
    fetchState,         \* "requested", "responded" or "done": the GET /api/photos of the mount
    fetchResponse,      \* the list the server answered with
    photos,             \* the client photo list (ids, in list order)
    newPhoto,           \* id of the photo in newPhoto, or Null
    \* App.tsx
    focusPhotoId,       \* id, or Null
    settleTimer,        \* id captured by the pending 500 ms timer, or Null
    \* components/Experience.tsx
    controlsRef,        \* TRUE when controlsRef.current is the mounted OrbitControls
    controlsEnabled,    \* OrbitControls.enabled
    focusState,
    highlightPhotoId,
    focusTimerRef,      \* handle in focusTimerRef.current, or Null
    timers,             \* pending dwell timers
    cameraPos,          \* camera.position
    controlsTarget,     \* controlsRef.current.target
    targetCameraPos,
    targetLookAt,
    originalCameraPos,
    originalLookAt,
    \* history
    ev,                 \* the handler that ran last
    clicks,             \* clicks on photo cards so far
    completeCalls,      \* onFocusComplete calls since the state last left idle
    focusedEntries,     \* zooming_in -> focused transitions since the state last left idle
    sequenceStartPos,   \* camera.position at the step that last left idle
    \* App.tsx
    mode,               \* TreeMode: "FORMED" or "CHAOS"
    \* components/Polaroids.tsx
    totalPhotos,        \* photos.length of the last layout
    photoDataList,      \* the layout records of the cards, in list order
    cardScale,          \* calculateScale(totalPhotos), in hundredths
    cardIsHighlighted,  \* the isHighlighted prop of one card
    cardIsFocusing,     \* the isFocusing prop of that card
    cardTargetPos,      \* the destination its last frame chose, or "none"
    \* components/Foliage.tsx
    foliageCount,       \* the count prop of the last layout
    targetPositions,    \* the foliage target positions, in index order
    \* per-frame state of the scene
    treeRotation,       \* treeGroupRef.current.rotation.y (Experience.tsx)
    foliageExpand,      \* expandRef.current of Foliage
    ornamentsExpand,    \* expandRef.current of Ornaments
    starExpand,         \* expandRef.current of TreeStar
    \* texture of one card (components/Polaroids.tsx)
    cardUrl,            \* the card's optimizedUrl, or Null with no card mounted
    cardTexture,        \* the card's state: texture (a url or Null), error, isLoading
    textureLoads        \* loads in flight: the url and the effect's mounted flag

serverVars == << photosDir, uploads, uploadsStarted, socketQueue >>
syncVars == << fetchState, fetchResponse, photos, newPhoto >>
appVars == << focusPhotoId, settleTimer >>
refVars == << targetCameraPos, targetLookAt, originalCameraPos, originalLookAt >>
focusVars == << controlsEnabled, focusState, highlightPhotoId, focusTimerRef, timers >>
cameraVars == << cameraPos, controlsTarget >>
historyVars == << completeCalls, focusedEntries, sequenceStartPos >>
layoutVars == << mode, totalPhotos, photoDataList, cardScale, cardIsHighlighted,
                 cardIsFocusing, cardTargetPos, foliageCount, targetPositions >>
sceneVars == << treeRotation, foliageExpand, ornamentsExpand, starExpand >>
textureVars == << cardUrl, cardTexture, textureLoads >>

vars == << photosDir, uploads, uploadsStarted, socketQueue,
           fetchState, fetchResponse, photos, newPhoto,
           focusPhotoId, settleTimer,
           controlsRef, controlsEnabled, focusState, highlightPhotoId,
           focusTimerRef, timers, cameraPos, controlsTarget,
           targetCameraPos, targetLookAt, originalCameraPos, originalLookAt,
           ev, clicks, completeCalls, focusedEntries, sequenceStartPos,
           mode, totalPhotos, photoDataList, cardScale, cardIsHighlighted,
           cardIsFocusing, cardTargetPos, foliageCount, targetPositions,
           treeRotation, foliageExpand, ornamentsExpand, starExpand,
           cardUrl, cardTexture, textureLoads >>

\* history record of a handler: its kind, its argument, and the focus state
\* and highlighted id it found
Event(op, id) == [op |-> op, id |-> id, from |-> focusState, hl |-> highlightPhotoId]

\* the layout components before their first layout and their first frame
LayoutAtRest ==
    /\ mode = "FORMED"
    /\ totalPhotos = 0
    /\ photoDataList = << >>
    /\ cardScale = 150
    /\ cardIsHighlighted = FALSE
    /\ cardIsFocusing = FALSE
    /\ cardTargetPos = "none"
    /\ foliageCount = 0
    /\ targetPositions = << >>

\* the tree and the particle systems before their first frame
SceneAtRest ==
    /\ treeRotation = 0
    /\ foliageExpand = 0
    /\ ornamentsExpand = 0
    /\ starExpand = 0

\* Polaroids.tsx:106-108, the initial state of a card
InitialCardTexture == [texture |-> Null, error |-> FALSE, isLoading |-> TRUE]

\* no card is mounted
NoCard ==
    /\ cardUrl = Null
    /\ cardTexture = InitialCardTexture
    /\ textureLoads = {}

\* the photo feed and the focus state machine after construction, with the
\* photo directory dir
ViewerAtMount(dir) ==
    /\ photosDir = dir
    /\ uploads = {}
    /\ uploadsStarted = 0
    /\ socketQueue = << >>
    /\ fetchState = "requested"
    /\ fetchResponse = << >>
    /\ photos = << >>
    /\ newPhoto = Null
    /\ focusPhotoId = Null
    /\ settleTimer = Null
    /\ controlsRef = FALSE
    /\ controlsEnabled = ControlsEnabledProp("idle")
    /\ focusState = "idle"
    /\ highlightPhotoId = Null
    /\ focusTimerRef = Null
    /\ timers = {}
    /\ cameraPos = InitialCameraPos
    /\ controlsTarget = InitialControlsTarget
    /\ targetCameraPos = InitialTargetCameraPos
    /\ targetLookAt = InitialTargetLookAt
    /\ originalCameraPos = InitialCameraPos
    /\ originalLookAt = InitialTargetLookAt
    /\ ev = [op |-> "init", id |-> Null, from |-> "idle", hl |-> Null]
    /\ clicks = 0
    /\ completeCalls = 0
    /\ focusedEntries = 0
    /\ sequenceStartPos = InitialCameraPos

Init ==
    /\ \E dir \in { 1..k : k \in 0..MaxInitialPhotos } : ViewerAtMount(dir)
    /\ LayoutAtRest
    /\ SceneAtRest
    /\ NoCard

----------------------------------------------------------------------------
(* server/server.js, local-disk mode *)

\* diskStorage.filename: the largest existing number plus one
NewNum(dir) == IF dir = {} THEN 1 ELSE Max(dir) + 1

\* multer calls diskStorage.filename when the upload's file part arrives;
\* the file itself is written afterwards; limit bounds the uploads posted
DiskStorageFilenameUpTo(limit) ==
    /\ uploadsStarted < limit
    /\ uploadsStarted' = uploadsStarted + 1
    /\ uploads' = uploads \cup { [req |-> uploadsStarted + 1, num |-> NewNum(photosDir)] }
    /\ ev' = Event("server", Null)
    /\ UNCHANGED << layoutVars, sceneVars, textureVars >>
    /\ UNCHANGED clicks
    /\ UNCHANGED << photosDir, socketQueue, syncVars, appVars, controlsRef,
                    focusVars, cameraVars, refVars, historyVars >>

\* an upload posted while the viewer runs
DiskStorageFilename == DiskStorageFilenameUpTo(MaxUploads)

\* the file is on disk, then POST /api/upload runs: photoId is the file
\* number and io.emit('new-photo') broadcasts it
PostApiUpload(r) ==
    /\ r \in uploads
    /\ uploads' = uploads \ {r}
    /\ photosDir' = photosDir \cup {r.num}
    /\ socketQueue' = Append(socketQueue, r.num)
    /\ ev' = Event("server", Null)
    /\ UNCHANGED << layoutVars, sceneVars, textureVars >>
    /\ UNCHANGED clicks
    /\ UNCHANGED << uploadsStarted, syncVars, appVars, controlsRef,
                    focusVars, cameraVars, refVars, historyVars >>

\* GET /api/photos: the directory listing, one entry per file
GetApiPhotos ==
    /\ fetchState = "requested"
    /\ fetchState' = "responded"
    /\ fetchResponse' = SortedSeq(photosDir)
    /\ ev' = Event("server", Null)
    /\ UNCHANGED << layoutVars, sceneVars, textureVars >>
    /\ UNCHANGED clicks
    /\ UNCHANGED << serverVars, photos, newPhoto, appVars, controlsRef,
                    focusVars, cameraVars, refVars, historyVars >>

----------------------------------------------------------------------------
(* hooks/usePhotoSync.ts and App.tsx *)

\* loadExistingPhotos, response.ok: setPhotos(processedPhotos)
LoadExistingPhotos ==
    /\ fetchState = "responded"
    /\ fetchState' = "done"
    /\ photos' = fetchResponse
    /\ ev' = Event("fetch", Null)
    /\ UNCHANGED << layoutVars, sceneVars, textureVars >>
    /\ UNCHANGED clicks
    /\ UNCHANGED << serverVars, fetchResponse, newPhoto, appVars, controlsRef,
                    focusVars, cameraVars, refVars, historyVars >>

\* loadExistingPhotos, the request fails or the response is not ok
LoadExistingPhotosFail ==
    /\ fetchState \in {"requested", "responded"}
    /\ fetchState' = "done"
    /\ ev' = Event("fetchFail", Null)
    /\ UNCHANGED << layoutVars, sceneVars, textureVars >>
    /\ UNCHANGED clicks
    /\ UNCHANGED << serverVars, fetchResponse, photos, newPhoto, appVars, controlsRef,
                    focusVars, cameraVars, refVars, historyVars >>

\* socket.on('new-photo'): append to the list and set newPhoto; the App
\* effect on [newPhoto] then clears the previous settle timer and starts one
\* for the new photo
OnNewPhoto ==
    /\ socketQueue # << >>
    /\ LET p == Head(socketQueue) IN
        /\ socketQueue' = Tail(socketQueue)
        /\ photos' = Append(photos, p)
        /\ newPhoto' = p
        /\ settleTimer' = p
        /\ ev' = Event("push", p)
        /\ UNCHANGED << layoutVars, sceneVars, textureVars >>
        /\ UNCHANGED clicks
    /\ UNCHANGED << photosDir, uploads, uploadsStarted, fetchState, fetchResponse,
                    focusPhotoId, controlsRef, focusVars, cameraVars, refVars,
                    historyVars >>

----------------------------------------------------------------------------
(* components/Experience.tsx *)

\* the effect on [focusPhotoId, camera] with focusPhotoId = q: tms are the
\* pending timers after the previous effect's cleanup
FocusPhotoIdEffect(q, tms) ==
    IF q = Null
    THEN /\ timers' = tms
         /\ UNCHANGED << controlsEnabled, focusState, highlightPhotoId, focusTimerRef,
                         refVars, historyVars >>
    ELSE /\ originalCameraPos' = cameraPos
         /\ originalLookAt' = IF controlsRef' THEN controlsTarget ELSE originalLookAt
         /\ targetCameraPos' = NewPhotoCameraPos
         /\ targetLookAt' = NewPhotoLookAt
         /\ focusState' = "zooming_in"
         /\ highlightPhotoId' = q
         /\ controlsEnabled' =
                CommitEnabled(IF controlsRef' THEN FALSE ELSE controlsEnabled,
                              focusState, focusState')
         /\ LET cleared == ClearTimeout(tms, focusTimerRef)
                h == FreshHandle(cleared, focusTimerRef)
            IN /\ timers' = cleared \cup { [h |-> h, ms |-> NewPhotoDwellMs, photo |-> q] }
               /\ focusTimerRef' = h
         /\ completeCalls' = IF focusState = "idle" THEN 0 ELSE completeCalls
         /\ focusedEntries' = IF focusState = "idle" THEN 0 ELSE focusedEntries
         /\ sequenceStartPos' = IF focusState = "idle" THEN cameraPos ELSE sequenceStartPos

\* a mount that attaches the ref and starts no pending focus
ExperienceMountNoEffect ==
    /\ ~controlsRef
    /\ controlsRef' = TRUE
    /\ FocusPhotoIdEffect(Null, timers)
    /\ ev' = Event("mount", focusPhotoId)
    /\ UNCHANGED << layoutVars, sceneVars, textureVars >>
    /\ UNCHANGED clicks
    /\ UNCHANGED << serverVars, syncVars, appVars, cameraVars >>

\* the Experience subtree commits: the OrbitControls ref is attached and
\* the effects run for the first time
ExperienceMount ==
    /\ ~controlsRef
    /\ controlsRef' = TRUE
    /\ FocusPhotoIdEffect(focusPhotoId, timers)
    /\ ev' = Event("mount", focusPhotoId)
    /\ UNCHANGED << layoutVars, sceneVars, textureVars >>
    /\ UNCHANGED clicks
    /\ UNCHANGED << serverVars, syncVars, appVars, cameraVars >>

\* App.tsx:83-86, the settle timer fires: setFocusPhotoId(newPhoto.id); when
\* the value changes the Experience effect is cleaned up and runs again
SettleFire ==
    /\ settleTimer # Null
    /\ settleTimer' = Null
    /\ focusPhotoId' = settleTimer
    /\ ev' = Event("settle", settleTimer)
    /\ UNCHANGED << layoutVars, sceneVars, textureVars >>
    /\ UNCHANGED clicks
    /\ UNCHANGED << serverVars, syncVars, controlsRef, cameraVars >>
    /\ IF controlsRef /\ settleTimer # focusPhotoId
       THEN FocusPhotoIdEffect(settleTimer, ClearTimeout(timers, focusTimerRef))
       ELSE UNCHANGED << focusVars, refVars, historyVars >>

\* handlePhotoClick(photoId)
HandlePhotoClick(p) ==
    IF focusState # "idle"
    THEN UNCHANGED << focusVars, refVars, historyVars >>
    ELSE /\ originalCameraPos' = cameraPos
         /\ originalLookAt' = IF controlsRef THEN controlsTarget ELSE originalLookAt
         /\ targetCameraPos' = ClickCameraPos
         /\ targetLookAt' = ClickLookAt
         /\ highlightPhotoId' = p
         /\ focusState' = "zooming_in"
         /\ controlsEnabled' =
                CommitEnabled(IF controlsRef THEN FALSE ELSE controlsEnabled,
                              focusState, focusState')
         /\ LET h == FreshHandle(timers, focusTimerRef)
            IN /\ timers' = timers \cup { [h |-> h, ms |-> ClickDwellMs, photo |-> p] }
               /\ focusTimerRef' = h
         /\ completeCalls' = 0
         /\ focusedEntries' = 0
         /\ sequenceStartPos' = cameraPos

\* PolaroidItem.handleClick on a rendered card of photo p
PolaroidItemHandleClick(p) ==
    /\ controlsRef
    /\ p \in Range(photos)
    /\ clicks < MaxClicks
    /\ clicks' = clicks + 1
    /\ ev' = Event("click", p)
    /\ UNCHANGED << layoutVars, sceneVars, textureVars >>
    /\ IF IsFocusing(focusState)
       THEN UNCHANGED << focusVars, refVars, historyVars >>
       ELSE HandlePhotoClick(p)
    /\ UNCHANGED << serverVars, syncVars, appVars, controlsRef, cameraVars >>

\* a dwell timer that sets the state it is meant to end
DwellNextStateFocused == "focused"

\* a dwell timer that ends the sequence at once
DwellNextStateIdle == "idle"

\* Experience.tsx:128 and 164, the state a dwell timer sets
DwellNextState == "zooming_out"

\* a timer that fires again and again (setInterval)
TimerFiredRepeating(tms, t) == tms

\* setTimeout is one-shot: a timer that has fired is no longer pending
TimerFired(tms, t) == tms \ {t}

\* a dwell timer fires: setFocusState('zooming_out')
DwellFire(t) ==
    /\ t \in timers
    /\ timers' = TimerFired(timers, t)
    /\ focusState' = DwellNextState
    /\ controlsEnabled' = CommitEnabled(controlsEnabled, focusState, focusState')
    /\ ev' = Event("dwell", t.photo)
    /\ UNCHANGED << layoutVars, sceneVars, textureVars >>
    /\ UNCHANGED clicks
    /\ UNCHANGED << serverVars, syncVars, appVars, controlsRef, highlightPhotoId,
                    focusTimerRef, cameraVars, refVars, historyVars >>

\* the user orbits the camera; OrbitControls ignores input unless enabled
UserOrbit(pose) ==
    /\ controlsRef
    /\ controlsEnabled
    /\ cameraPos # pose
    /\ cameraPos' = pose
    /\ ev' = Event("orbit", Null)
    /\ UNCHANGED << layoutVars, sceneVars, textureVars >>
    /\ UNCHANGED clicks
    /\ UNCHANGED << serverVars, syncVars, appVars, controlsRef, focusVars,
                    controlsTarget, refVars, historyVars >>

\* the zoom-in test with the zoom-out threshold
ArrivedAtTargetLoose(cam, target) == DistSq(cam, target) < ReturnThresholdSq

\* Experience.tsx:202
ArrivedAtTarget(cam, target) == DistSq(cam, target) < ArriveThresholdSq

\* the zoom-out test made against the zoom-in target
BackAtOriginalWrongRef(cam, original) == DistSq(cam, targetCameraPos) < ReturnThresholdSq

\* the zoom-out test with a threshold of 5 units instead of 0.5
BackAtOriginalLoose(cam, original) == DistSq(cam, original) < 100 * ReturnThresholdSq

\* Experience.tsx:215-216
BackAtOriginal(cam, original) == DistSq(cam, original) < ReturnThresholdSq

\* App.tsx:92-95, handleFocusComplete: setFocusPhotoId(null), clearNewPhoto();
\* the commit cleans up the Experience effect when focusPhotoId changes and
\* the App effect (its settle timer) when newPhoto changes
HandleFocusComplete ==
    /\ focusPhotoId' = Null
    /\ newPhoto' = Null
    /\ settleTimer' = IF newPhoto # Null THEN Null ELSE settleTimer
    /\ timers' = IF focusPhotoId # Null THEN ClearTimeout(timers, focusTimerRef) ELSE timers
    /\ completeCalls' = completeCalls + 1

\* the useFrame callback of Experience, one rendered frame
UseFrame(delta) ==
    /\ ev' = Event("frame", Null)
    /\ UNCHANGED << layoutVars, sceneVars, textureVars >>
    /\ UNCHANGED clicks
    /\ UNCHANGED << serverVars, fetchState, fetchResponse, photos, controlsRef,
                    focusTimerRef, refVars >>
    /\ IF ~controlsRef
       THEN UNCHANGED << newPhoto, appVars, controlsEnabled, focusState, highlightPhotoId,
                         timers, cameraVars, historyVars >>
       ELSE CASE focusState = "zooming_in" ->
                 /\ cameraPos' = LerpV(cameraPos, targetCameraPos, delta)
                 /\ controlsTarget' = LerpV(controlsTarget, targetLookAt, delta)
                 /\ IF ArrivedAtTarget(cameraPos', targetCameraPos)
                    THEN /\ focusState' = "focused"
                         /\ focusedEntries' = focusedEntries + 1
                    ELSE UNCHANGED << focusState, focusedEntries >>
                 /\ controlsEnabled' = CommitEnabled(controlsEnabled, focusState, focusState')
                 /\ UNCHANGED << newPhoto, appVars, highlightPhotoId, timers, completeCalls,
                                 sequenceStartPos >>
            [] focusState = "focused" ->
                 /\ controlsTarget' = LerpV(controlsTarget, targetLookAt, delta)
                 /\ UNCHANGED << newPhoto, appVars, controlsEnabled, focusState,
                                 highlightPhotoId, timers, cameraPos, historyVars >>
            [] focusState = "zooming_out" ->
                 /\ cameraPos' = LerpV(cameraPos, originalCameraPos, delta)
                 /\ controlsTarget' = LerpV(controlsTarget, originalLookAt, delta)
                 /\ IF BackAtOriginal(cameraPos', originalCameraPos)
                    THEN /\ focusState' = "idle"
                         /\ highlightPhotoId' = Null
                         /\ controlsEnabled' = CommitEnabled(TRUE, focusState, focusState')
                         /\ HandleFocusComplete
                         /\ UNCHANGED << focusedEntries, sequenceStartPos >>
                    ELSE UNCHANGED << newPhoto, appVars, controlsEnabled, focusState,
                                      highlightPhotoId, timers, historyVars >>
            [] OTHER ->
                 UNCHANGED << newPhoto, appVars, controlsEnabled, focusState, highlightPhotoId,
                              timers, cameraVars, historyVars >>

----------------------------------------------------------------------------
(* Specification *)

Next ==
    \/ DiskStorageFilename
    \/ \E r \in uploads : PostApiUpload(r)
    \/ GetApiPhotos
    \/ LoadExistingPhotos
    \/ LoadExistingPhotosFail
    \/ OnNewPhoto
    \/ ExperienceMount
    \/ SettleFire
    \/ \E p \in Range(photos) : PolaroidItemHandleClick(p)
    \/ \E t \in timers : DwellFire(t)
    \/ \E pose \in OrbitPoses : UserOrbit(pose)
    \/ \E delta \in Deltas : UseFrame(delta)

Spec == Init /\ [][Next]_vars

\* the event loop runs every due timer, the render loop keeps producing
\* frames, and the socket and the HTTP connection deliver what was sent;
\* uploads, clicks and orbiting are up to the users
FairSpec ==
    /\ Spec
    /\ WF_vars(\E r \in uploads : PostApiUpload(r))
    /\ WF_vars(GetApiPhotos)
    /\ WF_vars(LoadExistingPhotos)
    /\ WF_vars(OnNewPhoto)
    /\ WF_vars(ExperienceMount)
    /\ WF_vars(SettleFire)
    /\ WF_vars(\E t \in timers : DwellFire(t))
    /\ WF_vars(\E delta \in Deltas : UseFrame(delta))

\* the ids the server can hand out within the bounds
PhotoIds == 1..(MaxInitialPhotos + MaxUploads)

TypeOK ==
    /\ focusState \in FocusStates
    /\ highlightPhotoId \in PhotoIds \cup {Null}
    /\ focusPhotoId \in PhotoIds \cup {Null}
    /\ newPhoto \in PhotoIds \cup {Null}
    /\ settleTimer \in PhotoIds \cup {Null}
    /\ controlsEnabled \in BOOLEAN
    /\ controlsRef \in BOOLEAN
    /\ Range(photos) \subseteq PhotoIds
    /\ \A t \in timers : t.ms \in {ClickDwellMs, NewPhotoDwellMs}

----------------------------------------------------------------------------
(* Claims about the focus state machine *)

\* C1: a click on photo p in state idle sets the state to zooming_in and the
\* highlighted id to p; a click in any other state leaves the state, the
\* highlighted id, the stored camera targets, the original-pose snapshot and
\* the pending dwell timer unchanged.
C1_ClickFocus ==
    [][ ev'.op = "click" =>
          IF focusState = "idle"
          THEN focusState' = "zooming_in" /\ highlightPhotoId' = ev'.id
          ELSE UNCHANGED << focusState, highlightPhotoId, targetCameraPos, targetLookAt,
                            originalCameraPos, originalLookAt, timers, focusTimerRef >>
      ]_vars

\* a click was handled while a focus sequence was active
C1_Witness ==
    /\ ev.op = "click"
    /\ ev.from # "idle"
    /\ focusState = ev.from
    /\ highlightPhotoId = ev.hl
    /\ timers # {}

\* C2: with a single pushed photo and no click, the focus state changes only
\* along idle -> zooming_in (at the settle delay, highlighting the pushed
\* photo) -> focused (a frame) -> zooming_out (the dwell timer) -> idle (with
\* the highlighted id null), with no other focus state in between.
C2_PushSequence ==
    [][ (clicks' = 0 /\ uploadsStarted' <= 1 /\ focusState' # focusState) =>
          \/ /\ focusState = "idle"
             /\ focusState' = "zooming_in"
             /\ ev'.op \in {"settle", "mount"}
             /\ highlightPhotoId' = ev'.id
          \/ /\ focusState = "zooming_in"
             /\ focusState' = "focused"
             /\ ev'.op = "frame"
          \/ /\ focusState = "focused"
             /\ focusState' = "zooming_out"
             /\ ev'.op = "dwell"
          \/ /\ focusState = "zooming_out"
             /\ focusState' = "idle"
             /\ highlightPhotoId' = Null
      ]_vars

\* C3: onFocusComplete is called exactly once per focus cycle, in the step
\* that moves zooming_out to idle with the camera within 0.5 units of the
\* original snapshot, and never while the state is idle, zooming_in or
\* focused.
C3_FocusCompleteOnce ==
    /\ [](focusState # "idle" => completeCalls = 0)
    /\ [][ /\ (completeCalls' # completeCalls /\ completeCalls' # 0) =>
                 /\ focusState = "zooming_out"
                 /\ focusState' = "idle"
                 /\ completeCalls = 0
                 /\ completeCalls' = 1
                 /\ DistSq(cameraPos', originalCameraPos) < ReturnThresholdSq
           /\ (focusState # "idle" /\ focusState' = "idle") => completeCalls' = 1
         ]_vars

\* a focus cycle has ended and delivered its notification
C3_Witness ==
    /\ ev.op = "frame"
    /\ ev.from = "zooming_out"
    /\ focusState = "idle"
    /\ completeCalls = 1

\* C4: the highlighted id is non-null exactly when the focus state is not
\* idle; a step that enters zooming_in sets the id together with the camera
\* targets, and the id is cleared only by the step from zooming_out to idle.
C4_HighlightIffFocusing ==
    /\ [](highlightPhotoId # Null <=> focusState # "idle")
    /\ [][ /\ (focusState # "zooming_in" /\ focusState' = "zooming_in") =>
                 /\ highlightPhotoId' = ev'.id
                 /\ highlightPhotoId' # Null
                 /\ << targetCameraPos', targetLookAt' >> \in
                        { << ClickCameraPos, ClickLookAt >>,
                          << NewPhotoCameraPos, NewPhotoLookAt >> }
           /\ (highlightPhotoId # Null /\ highlightPhotoId' = Null) =>
                 (focusState = "zooming_out" /\ focusState' = "idle")
         ]_vars

\* a dwell timer has fired and the photo is still highlighted
C4_Witness ==
    /\ ev.op = "dwell"
    /\ focusState = "zooming_out"
    /\ highlightPhotoId # Null

\* C5: every photo delivered by a push gets a focus cycle: after the
\* new-photo handler ran for p the state eventually is zooming_in with
\* highlighted id p.
C5_PushedPhotoFocused ==
    \A p \in PhotoIds :
        (ev.op = "push" /\ ev.id = p) ~> (focusState = "zooming_in" /\ highlightPhotoId = p)

\* C6: when the focus signal for q arrives while a sequence for another photo
\* is active, the state becomes zooming_in with highlighted id q and every
\* dwell timer pending before is cancelled; a pending dwell timer always
\* belongs to the highlighted photo, so no timer of the superseded sequence
\* fires afterwards.
C6_Retarget ==
    /\ [](\A t \in timers : t.photo = highlightPhotoId)
    /\ [][ /\ (ev'.op = "settle" /\ focusState # "idle" /\ highlightPhotoId # ev'.id) =>
                 /\ focusState' = "zooming_in"
                 /\ highlightPhotoId' = ev'.id
                 /\ timers \cap timers' = {}
                 /\ \A t \in timers' : t.photo = ev'.id
           /\ ev'.op = "dwell" => ev'.id = highlightPhotoId
         ]_vars

\* the focus signal of one photo has superseded the sequence of another
C6_Witness ==
    /\ ev.op = "settle"
    /\ ev.from # "idle"
    /\ ev.hl # Null
    /\ ev.hl # ev.id
    /\ focusState = "zooming_in"
    /\ highlightPhotoId = ev.id

\* C7: a click or a new-photo focus signal for an id that is not in the photo
\* list is a no-op: the state, the highlighted id, the enabled flag of the
\* camera controls and the dwell timers are unchanged.
C7_MissingTargetNoOp ==
    [][ (ev'.op \in {"click", "settle", "mount"} /\ ev'.id # Null
            /\ ev'.id \notin Range(photos')) =>
          UNCHANGED << focusState, highlightPhotoId, controlsEnabled, timers >>
      ]_vars

C9_ControlsEnabledIffIdle ==
    /\ [](controlsEnabled <=> focusState = "idle")
    /\ [][ /\ (controlsEnabled /\ ~controlsEnabled') =>
                 (focusState = "idle" /\ focusState' = "zooming_in")
           /\ (~controlsEnabled /\ controlsEnabled') =>
                 (focusState = "zooming_out" /\ focusState' = "idle")
         ]_vars

\* a focus cycle has ended and the controls are enabled again
C9_Witness ==
    /\ ev.op = "frame"
    /\ ev.from = "zooming_out"
    /\ focusState = "idle"
    /\ controlsEnabled
    /\ controlsRef

\* the cards of the photo list that are rendered highlighted
HighlightedCards ==
    { i \in 1..Len(photos) : IsHighlighted(highlightPhotoId, photos[i]) }

\* C10: at most one photo card is rendered highlighted.
C10_AtMostOneHighlighted == Cardinality(HighlightedCards) <= 1

----------------------------------------------------------------------------
(* Claims about the client photo list *)

\* C11: the client photo list only grows: every photo that is in the list
\* before a step is in the list after it.
C11_ListOnlyGrows == [][ Range(photos) \subseteq Range(photos') ]_vars

\* C12: no two entries of the client photo list have the same id.
C12_UniqueIds ==
    \A i, j \in 1..Len(photos) : photos[i] = photos[j] => i = j

----------------------------------------------------------------------------
(* Layout generators: components/Polaroids.tsx and components/Foliage.tsx.  *)
(* Lengths are exact fractions num/den; an angle is a fraction of a turn.   *)

\* photos.length of the layouts explored: 0..MaxTotalPhotos
MaxTotalPhotos == 52

\* the count prop of the foliage layouts explored: 0..MaxFoliageCount
MaxFoliageCount == 6

TreeModes == {"FORMED", "CHAOS"}

Min(S) == CHOOSE m \in S : \A x \in S : m <= x

\* Math.ceil(a / b) for a >= 0 and b > 0
CeilDiv(a, b) == (a + b - 1) \div b

\* the ring denominator without its guard
RingDenominatorUnguarded(numRings) == numRings - 1

\* Polaroids.tsx:49, Math.max(numRings - 1, 1)
RingDenominator(numRings) == Max({numRings - 1, 1})

\* the ring capacity without its floor of 6
PhotosPerRingNoFloor(total) == CeilDiv(total, 5)

\* Polaroids.tsx:38, Math.max(6, Math.ceil(total / 5))
PhotosPerRing(total) == Max({6, CeilDiv(total, 5)})

\* Polaroids.tsx:32-64, calculateTargetPosition: the ring, the place in the
\* ring, the height y = yNum / yDen, the radius r = rNum / rDen and the angle
\* posInRing / photosInThisRing of a turn plus ringIndex * 0.3 rad
CalculateTargetPosition(index, total) ==
    LET photosPerRing == PhotosPerRing(total)
        numRings == CeilDiv(total, photosPerRing)
        ringIndex == index \div photosPerRing
        posInRing == index % photosPerRing
        photosInThisRing == Min({photosPerRing, total - ringIndex * photosPerRing})
        ringDen == RingDenominator(numRings)
        \* yNorm = 0.15 + (ringIndex / ringDen) * 0.7, as a fraction
        yNormNum == 15 * ringDen + 70 * ringIndex
        yNormDen == 100 * ringDen
    IN [ photosPerRing |-> photosPerRing,
         numRings |-> numRings,
         ringIndex |-> ringIndex,
         posInRing |-> posInRing,
         photosInThisRing |-> photosInThisRing,
         ringDen |-> ringDen,
         \* y = yNorm * treeHeight
         yNum |-> yNormNum * 10,
         yDen |-> yNormDen,
         \* r = 5.2 * (1 - yNorm * 0.75) + 1.2 * yNorm * 0.5 + 0.5
         rNum |-> 57 * yNormDen - 33 * yNormNum,
         rDen |-> 10 * yNormDen ]

\* the comparisons of calculateScale made strict
CalculateScaleStrict(n) ==
    IF n < 5 THEN 150
    ELSE IF n < 10 THEN 130
    ELSE IF n < 15 THEN 110
    ELSE IF n < 20 THEN 95
    ELSE IF n < 30 THEN 80
    ELSE IF n < 50 THEN 65
    ELSE 50

\* Polaroids.tsx:67-75, calculateScale, in hundredths
CalculateScale(n) ==
    IF n <= 5 THEN 150
    ELSE IF n <= 10 THEN 130
    ELSE IF n <= 15 THEN 110
    ELSE IF n <= 20 THEN 95
    ELSE IF n <= 30 THEN 80
    ELSE IF n <= 50 THEN 65
    ELSE 50

\* Polaroids.tsx:78-90, calculateChaosPosition: the angle index / max(total, 1)
\* of a turn; the distance and the height spread are random
CalculateChaosPosition(index, total) ==
    [ angleNum |-> index, angleDen |-> Max({total, 1}) ]

\* the destination chosen by the mode before the focus flags
CardDestinationModeFirst(isHighlighted, isFocusing, isFormed) ==
    IF isHighlighted /\ isFocusing THEN "focusDisplayPos"
    ELSE IF isFormed THEN "targetPos"
    ELSE IF isFocusing /\ ~isHighlighted THEN "scatterPos"
    ELSE "chaosPos"

\* Polaroids.tsx:225-238, the destination of a card in one frame
CardDestination(isHighlighted, isFocusing, isFormed) ==
    IF isHighlighted /\ isFocusing THEN "focusDisplayPos"
    ELSE IF isFocusing /\ ~isHighlighted THEN "scatterPos"
    ELSE IF isFormed THEN "targetPos"
    ELSE "chaosPos"

\* the foliage height running from the top down
FoliageYNormNumReversed(i, count) == count - i

\* Foliage.tsx:129, yNorm = i / count: the numerator over the denominator count
FoliageYNormNum(i, count) == i

\* Foliage.tsx:127-136, the target position of particle i: the height
\* y = yNorm * 12, the radius maxRadius * (1 - yNorm), both over the
\* denominator count, and the angle of i golden-ratio turns
FoliageTargetPosition(i, count) ==
    [ yNum |-> FoliageYNormNum(i, count) * 12,
      rNum |-> 5 * (count - FoliageYNormNum(i, count)),
      den |-> count,
      turns |-> i ]

\* everything but the layout components
viewerVars == << serverVars, syncVars, appVars, controlsRef, focusVars, cameraVars,
                 refVars, ev, clicks, historyVars >>

\* App.tsx:97-99, toggleMode; the card renders again
ToggleMode ==
    /\ mode' = IF mode = "FORMED" THEN "CHAOS" ELSE "FORMED"
    /\ cardTargetPos' = "none"
    /\ UNCHANGED << totalPhotos, photoDataList, cardScale, cardIsHighlighted,
                    cardIsFocusing, foliageCount, targetPositions >>
    /\ UNCHANGED << viewerVars, sceneVars, textureVars >>

\* Polaroids.tsx:297, the scale a card is rendered with, in hundredths
PolaroidItemScale(isHighlighted, isFocusing, baseScale) ==
    IF isHighlighted /\ isFocusing THEN 400 ELSE baseScale

\* the scale the card is rendered with
scale == PolaroidItemScale(cardIsHighlighted, cardIsFocusing, cardScale)

\* Polaroids.tsx:420-435 and 296, the photo list changes to one of n photos:
\* the useMemo lays every card out again and every card takes the base scale
PolaroidsLayout(n) ==
    /\ n # totalPhotos
    /\ totalPhotos' = n
    /\ photoDataList' =
          [ k \in 1..n |-> [ targetPos |-> CalculateTargetPosition(k - 1, n),
                             chaosPos |-> CalculateChaosPosition(k - 1, n) ] ]
    /\ cardScale' = CalculateScale(n)
    /\ cardTargetPos' = "none"
    /\ UNCHANGED << mode, cardIsHighlighted, cardIsFocusing, foliageCount,
                    targetPositions >>
    /\ UNCHANGED << viewerVars, sceneVars, textureVars >>

\* Polaroids.tsx:460-471, a card renders with new focus props
PolaroidItemProps(isHighlighted, isFocusing) ==
    /\ << isHighlighted, isFocusing >> # << cardIsHighlighted, cardIsFocusing >>
    /\ cardIsHighlighted' = isHighlighted
    /\ cardIsFocusing' = isFocusing
    /\ cardTargetPos' = "none"
    /\ UNCHANGED << mode, totalPhotos, photoDataList, cardScale, foliageCount,
                    targetPositions >>
    /\ UNCHANGED << viewerVars, sceneVars, textureVars >>

\* Polaroids.tsx:216-244, the useFrame callback of a card picks its destination
PolaroidItemUseFrame ==
    /\ cardTargetPos' = CardDestination(cardIsHighlighted, cardIsFocusing, mode = "FORMED")
    /\ UNCHANGED << mode, totalPhotos, photoDataList, cardScale, cardIsHighlighted,
                    cardIsFocusing, foliageCount, targetPositions >>
    /\ UNCHANGED << viewerVars, sceneVars, textureVars >>

\* Foliage.tsx:107-146, the useMemo on [count]
FoliageLayout(count) ==
    /\ count # foliageCount
    /\ foliageCount' = count
    /\ targetPositions' = [ k \in 1..count |-> FoliageTargetPosition(k - 1, count) ]
    /\ UNCHANGED << mode, totalPhotos, photoDataList, cardScale, cardIsHighlighted,
                    cardIsFocusing, cardTargetPos >>
    /\ UNCHANGED << viewerVars, sceneVars, textureVars >>

\* the layout components under every mode and every pair of focus props,
\* before the first layout; the viewer stays as constructed
LayoutInit ==
    /\ ViewerAtMount({})
    /\ mode \in TreeModes
    /\ cardIsHighlighted \in BOOLEAN
    /\ cardIsFocusing \in BOOLEAN
    /\ cardTargetPos = "none"
    /\ totalPhotos = 0
    /\ photoDataList = << >>
    /\ cardScale = CalculateScale(0)
    /\ foliageCount = 0
    /\ targetPositions = << >>
    /\ SceneAtRest
    /\ NoCard

LayoutNext ==
    \/ ToggleMode
    \/ \E n \in 0..MaxTotalPhotos : PolaroidsLayout(n)
    \/ \E h, f \in BOOLEAN : PolaroidItemProps(h, f)
    \/ PolaroidItemUseFrame
    \/ \E count \in 0..MaxFoliageCount : FoliageLayout(count)

LayoutSpec == LayoutInit /\ [][LayoutNext]_vars

----------------------------------------------------------------------------
(* Claims about the layout generators *)

\* C13: the destination a card's frame chooses follows the strict priority:
\* highlighted and focusing gives the focus display position whatever the
\* mode; focusing and not highlighted gives the card's scatter position,
\* never its tree or chaos position; not focusing gives the ring-layout
\* target position when the mode is FORMED and the chaos position otherwise.
C13_DestinationPriority ==
    cardTargetPos # "none" =>
        /\ (cardIsHighlighted /\ cardIsFocusing) => cardTargetPos = "focusDisplayPos"
        /\ (cardIsFocusing /\ ~cardIsHighlighted) => cardTargetPos = "scatterPos"
        /\ ~cardIsFocusing =>
              cardTargetPos = (IF mode = "FORMED" THEN "targetPos" ELSE "chaosPos")

\* a frame sent a card that is not highlighted to its scatter position while
\* the tree is formed
C13_Witness ==
    /\ cardTargetPos = "scatterPos"
    /\ mode = "FORMED"
    /\ cardIsFocusing
    /\ ~cardIsHighlighted

\* C14: the card scale is a non-increasing step function of the photo count
\* that changes exactly at the breakpoints: 5, 10, 15, 20, 30 and 50 photos
\* get 1.5, 1.3, 1.1, 0.95, 0.8 and 0.65, one photo more gets the next
\* smaller scale, and 51 photos and more get 0.5.
C14_ScaleSteps ==
    /\ [] /\ (totalPhotos = 5 => cardScale = 150)
          /\ (totalPhotos \in {6, 10} => cardScale = 130)
          /\ (totalPhotos \in {11, 15} => cardScale = 110)
          /\ (totalPhotos \in {16, 20} => cardScale = 95)
          /\ (totalPhotos \in {21, 30} => cardScale = 80)
          /\ (totalPhotos \in {31, 50} => cardScale = 65)
          /\ (totalPhotos >= 51 => cardScale = 50)
    /\ [][ /\ totalPhotos' >= totalPhotos => cardScale' <= cardScale
           /\ (totalPhotos' = totalPhotos + 1 /\ cardScale' # cardScale) =>
                 totalPhotos \in {5, 10, 15, 20, 30, 50}
         ]_vars

\* the list has grown past the last breakpoint
C14_Witness ==
    /\ totalPhotos = 51
    /\ cardScale = 50
    /\ Len(photoDataList) = 51

C24_HighlightScaleProportional ==
    [][ (cardIsHighlighted /\ cardIsFocusing /\ cardIsHighlighted' /\ cardIsFocusing') =>
            scale' * cardScale = scale * cardScale'
      ]_vars

\* C26: for every total T >= 1, card i < T is in ring floor(i / cap) with
\* cap = max(6, ceil(T / 5)), at a slot i mod cap below the occupancy of its
\* ring, which is at least 1; no two cards share ring and slot; every ring
\* index is below the number of rings; the occupancies of the rings sum to T.
C26_RingLayout ==
    totalPhotos >= 1 =>
        LET T == totalPhotos
            fifth == IF T % 5 = 0 THEN T \div 5 ELSE T \div 5 + 1
            cap == IF fifth > 6 THEN fifth ELSE 6
            pos(k) == photoDataList[k].targetPos
            n == pos(1).numRings
            inRing(r) == { k \in 1..T : pos(k).ringIndex = r }
            occupancy(r) == pos(CHOOSE k \in inRing(r) : TRUE).photosInThisRing
            sum[r \in 0..n] == IF r = 0 THEN 0 ELSE sum[r - 1] + occupancy(r - 1)
        IN /\ Len(photoDataList) = T
           /\ \A k \in 1..T :
                 /\ pos(k).ringIndex = (k - 1) \div cap
                 /\ pos(k).posInRing = (k - 1) % cap
                 /\ pos(k).photosInThisRing >= 1
                 /\ pos(k).posInRing < pos(k).photosInThisRing
                 /\ pos(k).numRings = n
                 /\ pos(k).ringIndex < n
                 /\ pos(k).photosInThisRing = Cardinality(inRing(pos(k).ringIndex))
           /\ \A j, k \in 1..T :
                 (pos(j).ringIndex = pos(k).ringIndex /\ pos(j).posInRing = pos(k).posInRing)
                    => j = k
           /\ \A r \in 0..(n - 1) : inRing(r) # {}
           /\ sum[n] = T

\* a layout with a partly filled last ring above full rings of more than 6
C26_Witness ==
    /\ totalPhotos = 52
    /\ Len(photoDataList) = 52
    /\ photoDataList[52].targetPos.ringIndex = 4
    /\ photoDataList[52].targetPos.photosInThisRing = 8
    /\ photoDataList[1].targetPos.photosInThisRing = 11

\* two foliage targets are the same point: same height, same radius and,
\* off the axis, the same angle (whole multiples of the golden ratio differ
\* by no whole number of turns)
SamePoint(a, b) ==
    /\ a.yNum * b.den = b.yNum * a.den
    /\ a.rNum * b.den = b.rNum * a.den
    /\ (a.rNum = 0 \/ a.turns = b.turns)

\* C16: the foliage target positions of a count N >= 1 are N pairwise
\* distinct points whose height is non-decreasing and whose radius is
\* non-increasing in index order.
C16_FoliageCone ==
    /\ Len(targetPositions) = foliageCount
    /\ \A i, j \in 1..Len(targetPositions) :
          i < j =>
             /\ ~SamePoint(targetPositions[i], targetPositions[j])
             /\ targetPositions[i].yNum * targetPositions[j].den
                    <= targetPositions[j].yNum * targetPositions[i].den
             /\ targetPositions[i].rNum * targetPositions[j].den
                    >= targetPositions[j].rNum * targetPositions[i].den

\* a foliage layout of several particles
C16_Witness ==
    /\ foliageCount >= 3
    /\ Len(targetPositions) = foliageCount
    /\ targetPositions[1].yNum = 0
    /\ targetPositions[3].yNum = 24

----------------------------------------------------------------------------
(* Claims about the camera snapshot and the dwell timers *)

\* C17: the original camera pose snapshot is not overwritten while the state
\* is not idle, and a step that ends a focus sequence leaves the camera
\* within 0.5 units of the pose it had when the sequence began.
C17_SnapshotIsStartPose ==
    [][ /\ focusState # "idle" => UNCHANGED << originalCameraPos, originalLookAt >>
        /\ (focusState # "idle" /\ focusState' = "idle") =>
              DistSq(cameraPos', sequenceStartPos) < ReturnThresholdSq
      ]_vars

\* C18: the state zooming_out is entered only from focused, and a dwell timer
\* fires only in focused, never in zooming_in, zooming_out or idle.
C18_ZoomOutOnlyFromFocused ==
    [][ /\ (focusState # "zooming_out" /\ focusState' = "zooming_out") =>
              focusState = "focused"
        /\ ev'.op = "dwell" => focusState = "focused"
      ]_vars

\* C19: at most one dwell timer is pending; a step that schedules a dwell
\* timer is a click or a new-photo trigger and leaves that timer as the only
\* one pending, held by focusTimerRef.
C19_OneDwellTimer ==
    /\ [](Cardinality(timers) <= 1)
    /\ [][ (timers' \ timers # {}) =>
              /\ ev'.op \in {"click", "settle", "mount"}
              /\ Cardinality(timers') = 1
              /\ timers \cap timers' = {}
              /\ \A t \in timers' : t.h = focusTimerRef'
         ]_vars

\* a new-photo trigger has superseded a sequence that was waiting in focused
C19_Witness ==
    /\ ev.op = "settle"
    /\ ev.from = "focused"
    /\ focusState = "zooming_in"
    /\ Cardinality(timers) = 1
    /\ \A t \in timers : t.ms = NewPhotoDwellMs /\ t.h = focusTimerRef

\* C20: a dwell timer is pending whenever the state is zooming_in or focused,
\* and none is pending whenever the state is idle or zooming_out.
C20_TimerMatchesState ==
    /\ focusState \in {"zooming_in", "focused"} => timers # {}
    /\ focusState \in {"idle", "zooming_out"} => timers = {}

\* a frame ran in focused and the timer that will end the dwell is pending
C20_Witness ==
    /\ ev.op = "frame"
    /\ ev.from = "focused"
    /\ focusState = "focused"
    /\ \E t \in timers : t.photo = highlightPhotoId

----------------------------------------------------------------------------
(* Claims about termination and the expand signal *)

C22_ExpandTargetShared ==
    LET targets == { FoliageExpandAmount(focusState), OrnamentsExpandAmount(focusState),
                     PolaroidsExpandAmount(focusState), TreeStarExpandAmount(focusState) }
    IN /\ Cardinality(targets) = 1
       /\ focusState # "idle" => targets = {1}
       /\ focusState = "idle" => targets = {0}
       /\ highlightPhotoId # Null => targets = {1}

\* the camera is flying back from a sequence that a push started and the
\* subsystems are still told to expand
C22_Witness ==
    /\ focusState = "zooming_out"
    /\ focusPhotoId # Null
    /\ highlightPhotoId = focusPhotoId
    /\ TreeStarExpandAmount(focusState) = 1
    /\ FoliageExpandAmount(focusState) = 1

----------------------------------------------------------------------------
(* Per-frame state of the scene: the tree rotation (Experience.tsx) and the *)
(* smoothed expand amounts (Foliage.tsx, Ornaments.tsx, TreeStar).          *)
(* The rotation is in 1/1200 rad, an expand amount in 1/36.                 *)

\* the tree rotation explored: up to 0.1 rad
MaxTreeRotation == 120

\* frame deltas of the scene, in twelfths of a second; the last is a frame
\* that follows a pause of the render loop
SceneDeltas == {1, 3, 9}

\* the value 1 of an expand amount
ExpandOne == 36

\* Experience.tsx:178, rotation.y += delta * 0.1
TreeRotationStep(delta) == delta * 10

\* the decay without the snap to zero
TreeRotationDecayNoSnap(r) == RoundDiv(r * 4, 5)

\* Experience.tsx:183-187, rotation.y *= 0.8 and the snap to 0 below 0.01 rad
TreeRotationDecay(r) ==
    LET d == RoundDiv(r * 4, 5)
    IN IF d < 12 /\ d > -12 THEN 0 ELSE d

\* THREE.MathUtils.lerp(x, target, delta * 2) = (1 - t) * x + t * target
ExpandLerp(x, target, delta) == x + RoundDiv((ExpandOne * target - x) * delta, 6)

\* the transitions of the focus state machine
FocusTransitions ==
    { << "idle", "zooming_in" >>, << "zooming_in", "focused" >>,
      << "zooming_in", "zooming_out" >>, << "focused", "zooming_out" >>,
      << "focused", "zooming_in" >>, << "zooming_out", "zooming_in" >>,
      << "zooming_out", "idle" >> }

\* the focus state machine takes a transition and Experience renders again;
\* the scene reads nothing but the focus state
FocusTransition(fs) ==
    /\ << focusState, fs >> \in FocusTransitions
    /\ focusState' = fs
    /\ UNCHANGED << serverVars, syncVars, appVars, controlsRef, controlsEnabled,
                    highlightPhotoId, focusTimerRef, timers, cameraVars, refVars,
                    ev, clicks, historyVars >>
    /\ UNCHANGED << layoutVars, sceneVars, textureVars >>

\* one rendered frame of the scene: the tree rotation in the useFrame
\* callback of Experience and the expand amounts in those of Foliage,
\* Ornaments and TreeStar
SceneFrame(delta) ==
    /\ treeRotation' = IF focusState = "idle"
                       THEN treeRotation + TreeRotationStep(delta)
                       ELSE TreeRotationDecay(treeRotation)
    /\ treeRotation' <= MaxTreeRotation
    /\ foliageExpand' = ExpandLerp(foliageExpand, FoliageExpandAmount(focusState), delta)
    /\ ornamentsExpand' = ExpandLerp(ornamentsExpand, OrnamentsExpandAmount(focusState), delta)
    /\ starExpand' = ExpandLerp(starExpand, TreeStarExpandAmount(focusState), delta)
    /\ UNCHANGED << viewerVars, layoutVars, textureVars >>

SceneInit ==
    /\ ViewerAtMount({})
    /\ LayoutAtRest
    /\ SceneAtRest
    /\ NoCard

SceneNext ==
    \/ \E fs \in FocusStates : FocusTransition(fs)
    \/ \E delta \in SceneDeltas : SceneFrame(delta)

SceneSpec == SceneInit /\ [][SceneNext]_vars

\* the render loop keeps producing frames
SceneFairSpec == SceneSpec /\ WF_vars(\E delta \in SceneDeltas : SceneFrame(delta))

\* C23: the smoothed expand amount of every subsystem stays within [0, 1].
C23_ExpandInUnitInterval ==
    \A x \in { foliageExpand, ornamentsExpand, starExpand } : 0 <= x /\ x <= ExpandOne

\* C30: the tree rotation advances only in frames where the focus state is
\* idle; in a frame where the state is not idle its magnitude does not
\* increase; while the state stays not idle it becomes exactly 0 after
\* finitely many frames and then stays 0.
C30_RotationSettles ==
    /\ [][ /\ treeRotation' > treeRotation => focusState = "idle"
           /\ focusState # "idle" => (treeRotation' <= treeRotation /\ treeRotation' >= 0)
           /\ (focusState # "idle" /\ treeRotation = 0) => treeRotation' = 0
         ]_vars
    /\ (focusState # "idle") ~> (treeRotation = 0 \/ focusState = "idle")

\* a focus sequence found the tree turned and a frame has decayed the rotation
C30_Witness ==
    /\ focusState = "focused"
    /\ treeRotation > 0
    /\ treeRotation % 10 # 0
    /\ foliageExpand > 0

----------------------------------------------------------------------------
(* Claims about the framing of the two triggers.                            *)

----------------------------------------------------------------------------
(* The texture of one card: the load effect of PolaroidItem,               *)
(* Polaroids.tsx:152-193. A load in flight is the url it fetches and the   *)
(* mounted flag of the effect run that started it.                         *)

\* the urls a card is given, numbered
Urls == {1, 2}

\* a load callback that ignores the mounted flag
CallbackAppliesAlways(load) == TRUE

\* Polaroids.tsx:165 and 185, if (!mounted) return
CallbackApplies(load) == load.mounted

\* Polaroids.tsx:192, the cleanup of the effect: mounted = false
EffectCleanup(loads) == { [url |-> l.url, mounted |-> FALSE] : l \in loads }

\* Polaroids.tsx:153-163, the effect body: setIsLoading(true),
\* setError(false) and loader.load(optimizedUrl, ...)
StartLoad(url, loads) ==
    /\ cardTexture' = [cardTexture EXCEPT !.isLoading = TRUE, !.error = FALSE]
    /\ textureLoads' = loads \cup { [url |-> url, mounted |-> TRUE] }

\* a card is mounted with a url and its load effect runs
CardMount(url) ==
    /\ cardUrl = Null
    /\ cardUrl' = url
    /\ StartLoad(url, textureLoads)
    /\ UNCHANGED << viewerVars, layoutVars, sceneVars >>

\* the card renders with another url: the effect on [optimizedUrl] is
\* cleaned up and runs again
CardUrlChange(url) ==
    /\ cardUrl # Null
    /\ cardUrl # url
    /\ cardUrl' = url
    /\ StartLoad(url, EffectCleanup(textureLoads))
    /\ UNCHANGED << viewerVars, layoutVars, sceneVars >>

\* the card is removed from the list: the effect is cleaned up
CardUnmount ==
    /\ cardUrl # Null
    /\ cardUrl' = Null
    /\ cardTexture' = InitialCardTexture
    /\ textureLoads' = EffectCleanup(textureLoads)
    /\ UNCHANGED << viewerVars, layoutVars, sceneVars >>

\* Polaroids.tsx:164-180, the success callback of a load; the try block
\* either completes or throws, before or after setTexture
TextureLoaded(load, threw, textureSet) ==
    /\ load \in textureLoads
    /\ textureLoads' = textureLoads \ {load}
    /\ cardTexture' =
          IF ~CallbackApplies(load) THEN cardTexture
          ELSE IF threw
               THEN [texture |-> IF textureSet THEN load.url ELSE cardTexture.texture,
                     error |-> TRUE, isLoading |-> FALSE]
               ELSE [texture |-> load.url, error |-> FALSE, isLoading |-> FALSE]
    /\ UNCHANGED cardUrl
    /\ UNCHANGED << viewerVars, layoutVars, sceneVars >>

\* Polaroids.tsx:184-189, the error callback of a load
TextureFailed(load) ==
    /\ load \in textureLoads
    /\ textureLoads' = textureLoads \ {load}
    /\ cardTexture' =
          IF ~CallbackApplies(load) THEN cardTexture
          ELSE [cardTexture EXCEPT !.error = TRUE, !.isLoading = FALSE]
    /\ UNCHANGED cardUrl
    /\ UNCHANGED << viewerVars, layoutVars, sceneVars >>

TextureInit ==
    /\ ViewerAtMount({})
    /\ LayoutAtRest
    /\ SceneAtRest
    /\ NoCard

TextureNext ==
    \/ \E fs \in FocusStates : FocusTransition(fs)
    \/ \E url \in Urls : CardMount(url)
    \/ \E url \in Urls : CardUrlChange(url)
    \/ CardUnmount
    \/ \E load \in textureLoads : \E threw, textureSet \in BOOLEAN :
          TextureLoaded(load, threw, textureSet)
    \/ \E load \in textureLoads : TextureFailed(load)

TextureSpec == TextureInit /\ [][TextureNext]_vars

\* C27: a card in the error state stays in it, neither loading nor loaded,
\* in every step that leaves its url unchanged; a step in which a texture
\* load ends, in success or in failure, changes neither the focus state, the
\* highlighted id nor the dwell timer.
C27_ErrorIsFinal ==
    [][ /\ (cardUrl # Null /\ cardTexture.error /\ cardUrl' = cardUrl) =>
              (cardTexture'.error /\ ~cardTexture'.isLoading)
        /\ (textureLoads' \subseteq textureLoads /\ textureLoads' # textureLoads) =>
              UNCHANGED << focusState, highlightPhotoId, timers, focusTimerRef >>
      ]_vars

\* during a focus sequence the card shows the placeholder for a url that
\* failed after another url had loaded, and a load started for an earlier
\* url is still in flight
C27_Witness ==
    /\ focusState = "focused"
    /\ cardUrl # Null
    /\ cardTexture.error
    /\ cardTexture.texture \notin {Null, cardUrl}
    /\ \E l \in textureLoads : ~l.mounted /\ l.url = cardUrl

----------------------------------------------------------------------------
(* The server alone, server/server.js in local-disk mode, with several     *)
(* uploads in flight; no client takes the broadcasts off the socket, so    *)
(* socketQueue is the sequence of all new-photo broadcasts.                *)

\* uploads posted to the server
MaxServerUploads == 3

ServerDiskStorageFilename == DiskStorageFilenameUpTo(MaxServerUploads)

ServerInit == Init

ServerNext ==
    \/ ServerDiskStorageFilename
    \/ \E r \in uploads : PostApiUpload(r)
    \/ GetApiPhotos

ServerSpec == ServerInit /\ [][ServerNext]_vars

\* C29: no two new-photo broadcasts carry the same id, also when uploads are
\* handled concurrently.
C29_BroadcastIdsUnique ==
    \A i, j \in 1..Len(socketQueue) : socketQueue[i] = socketQueue[j] => i = j

----------------------------------------------------------------------------
(* Claims about frames before the camera controls are mounted.              *)

=============================================================================
